---------------------------- MODULE Spec2Model ----------------------------
(***************************************************************************)
(* Model of the prediction-terminal verification scripts:                  *)
(*   - test_hmac.py: build_hmac_signature_python_client and main, the      *)
(*     request-authentication digest and its comparison with the Rust one; *)
(*   - compare_formats.py: the field-by-field comparison of two orders.    *)
(* Strings are sequences of one-character strings; bytes are sequences of  *)
(* numbers 0..255.  HMAC-SHA256 is an uninterpreted function of the key    *)
(* block and the message bytes (two digests are equal exactly when both    *)
(* are), which is the collision-resistance reading of the hash.            *)
(***************************************************************************)
EXTENDS Integers, Sequences, FiniteSets, TLC

VARIABLES
    \* test_hmac.py
    secret, timestamp, method, request_path, body,   \* the call's arguments
    rust_signature,                                  \* the reference digest string main compares with
    pc,                                              \* position in build_hmac_signature_python_client / main
    message, decoded_secret, result_bytes, signature,
    matched,                                         \* the boolean main prints after "Match:"
    stdout,                                          \* everything printed so far
    \* compare_formats.py
    PYTHON_ORDER, RUST_ORDER,
    cpc, idx,                                        \* position in the script, index of the loop
    fieldResults,                                    \* one entry per loop iteration (what it printed)
    extraKeys, missingKeys, sameKeys                 \* what the key check printed

authVars == <<secret, timestamp, method, request_path, body, rust_signature, pc,
              message, decoded_secret, result_bytes, signature, matched, stdout>>
cmpVars == <<PYTHON_ORDER, RUST_ORDER, cpc, idx, fieldResults, extraKeys, missingKeys, sameKeys>>
vars == <<authVars, cmpVars>>

---------------------------------------------------------------------------
(* Bounds of the model *)

MaxTimestamp == 10
MaxBodyLen == 2
MaxSecretLen == 5

---------------------------------------------------------------------------
(* Strings, bytes *)

RECURSIVE SeqsUpTo(_, _)
SeqsUpTo(S, n) ==
    IF n = 0 THEN {<<>>}
    ELSE {<<>>} \cup {<<c>> \o s : c \in S, s \in SeqsUpTo(S, n - 1)}

RECURSIVE IndexOf(_, _, _)
IndexOf(table, c, i) ==
    IF i > Len(table) THEN 0
    ELSE IF table[i] = c THEN i
    ELSE IndexOf(table, c, i + 1)

Digits == <<"0","1","2","3","4","5","6","7","8","9">>
HexDigits == <<"0","1","2","3","4","5","6","7","8","9","a","b","c","d","e","f">>

\* The printable ASCII characters, from the space (code 32) to the tilde (126).
Ascii ==
    <<" ","!","\"","#","$","%","&","'","(",")","*","+",",","-",".","/","0","1","2","3","4","5","6",
       "7","8","9",":",";","<","=",">","?","@","A","B","C","D","E","F","G","H","I","J","K","L",
       "M","N","O","P","Q","R","S","T","U","V","W","X","Y","Z","[","backslash","]","^","_",
       "backtick","a","b","c","d","e","f","g","h","i","j","k","l","m","n","o","p","q","r","s",
       "t","u","v","w","x","y","z","{","|","}","~">>

ord(c) == 31 + IndexOf(Ascii, c, 1)

\* str.encode(): every character of the model is ASCII, one byte each.
encode(s) == [i \in 1..Len(s) |-> ord(s[i])]

\* bytes.hex()
hex(bytes) ==
    [i \in 1..(2 * Len(bytes)) |->
        IF i % 2 = 1 THEN HexDigits[(bytes[(i + 1) \div 2] \div 16) + 1]
        ELSE HexDigits[(bytes[i \div 2] % 16) + 1]]

\* str(n) of a non-negative integer
RECURSIVE str(_)
str(n) == IF n < 10 THEN <<Digits[n + 1]>> ELSE str(n \div 10) \o <<Digits[(n % 10) + 1]>>

\* s[:n]
MsgPreview == 100
Prefix(s, n) == IF Len(s) <= n THEN s ELSE SubSeq(s, 1, n)

---------------------------------------------------------------------------
(* build_hmac_signature_python_client: the message *)

\* str.replace(single quote, double quote): every occurrence.
replace_swapping(s) ==
    [i \in 1..Len(s) |-> IF s[i] = "'" THEN "\"" ELSE IF s[i] = "\"" THEN "'" ELSE s[i]]
replace(s) == [i \in 1..Len(s) |-> IF s[i] = "'" THEN "\"" ELSE s[i]]

\* A body argument: a string, or None (present = FALSE).
NoBody == [present |-> FALSE, text |-> <<>>]
StrBody(s) == [present |-> TRUE, text |-> s]
\* The truth value Python gives the body: None and the empty string are false.
Truthy(b) == b.present /\ b.text # <<>>

build_message_quoting_all(ts, m, p, b) ==
    replace(str(ts) \o m \o p \o (IF Truthy(b) THEN b.text ELSE <<>>))
build_message(ts, m, p, b) ==
    LET head == str(ts) \o m \o p
    IN  IF Truthy(b) THEN head \o replace(b.text) ELSE head

---------------------------------------------------------------------------
(* base64.urlsafe_b64decode, as CPython's binascii.a2b_base64 runs it      *)
(* (strict_mode off): the 64 characters of the standard alphabet in order, *)
(* the minus and the underscore translated to plus and slash first.        *)

StdAlphabet ==
    <<"A","B","C","D","E","F","G","H","I","J","K","L","M","N","O","P","Q","R","S","T","U","V","W",
       "X","Y","Z","a","b","c","d","e","f","g","h","i","j","k","l","m","n","o","p","q","r","s",
       "t","u","v","w","x","y","z","0","1","2","3","4","5","6","7","8","9","+","/">>

urlsafe_translate(c) == IF c = "-" THEN "+" ELSE IF c = "_" THEN "/" ELSE c

\* 0..63 for a character of the alphabet, -1 for any other character.
b64val(c) == IndexOf(StdAlphabet, urlsafe_translate(c), 1) - 1

DecodeError == [ok |-> FALSE, bytes |-> <<>>]
Decoded(out) == [ok |-> TRUE, bytes |-> out]

RECURSIVE a2b_tolerant(_, _, _, _, _, _)
a2b_tolerant(s, i, quad_pos, leftchar, pads, out) ==
    IF i > Len(s) THEN Decoded(out)
    ELSE IF b64val(s[i]) < 0 THEN a2b_tolerant(s, i + 1, quad_pos, leftchar, pads, out)
    ELSE LET this_ch == b64val(s[i])
         IN  CASE quad_pos = 0 -> a2b_tolerant(s, i + 1, 1, this_ch, 0, out)
               [] quad_pos = 1 -> a2b_tolerant(s, i + 1, 2, this_ch % 16, 0,
                                        Append(out, leftchar * 4 + (this_ch \div 16)))
               [] quad_pos = 2 -> a2b_tolerant(s, i + 1, 3, this_ch % 4, 0,
                                        Append(out, leftchar * 16 + (this_ch \div 4)))
               [] quad_pos = 3 -> a2b_tolerant(s, i + 1, 0, 0, 0,
                                        Append(out, leftchar * 64 + this_ch))

RECURSIVE a2b_base64(_, _, _, _, _, _)
a2b_base64(s, i, quad_pos, leftchar, pads, out) ==
    IF i > Len(s) THEN
        \* binascii.Error: incorrect padding, or one data character too many
        IF quad_pos # 0 THEN DecodeError ELSE Decoded(out)
    ELSE IF s[i] = "=" THEN
        IF quad_pos >= 2 /\ quad_pos + pads + 1 >= 4 THEN Decoded(out)
        ELSE a2b_base64(s, i + 1, quad_pos, leftchar,
                        IF quad_pos >= 2 THEN pads + 1 ELSE pads, out)
    ELSE IF b64val(s[i]) < 0 THEN
        \* a character outside the alphabet is skipped
        a2b_base64(s, i + 1, quad_pos, leftchar, pads, out)
    ELSE LET this_ch == b64val(s[i])
         IN  CASE quad_pos = 0 -> a2b_base64(s, i + 1, 1, this_ch, 0, out)
               [] quad_pos = 1 -> a2b_base64(s, i + 1, 2, this_ch % 16, 0,
                                        Append(out, leftchar * 4 + (this_ch \div 16)))
               [] quad_pos = 2 -> a2b_base64(s, i + 1, 3, this_ch % 4, 0,
                                        Append(out, leftchar * 16 + (this_ch \div 4)))
               [] quad_pos = 3 -> a2b_base64(s, i + 1, 0, 0, 0,
                                        Append(out, leftchar * 64 + this_ch))

urlsafe_b64decode(s) == a2b_base64(s, 1, 0, 0, 0, <<>>)

---------------------------------------------------------------------------
(* hmac.new(decoded_secret, message.encode(), hashlib.sha256).digest()      *)

\* HMAC pads the key with zero bytes to the hash block, so trailing zero
\* bytes of the key do not change the digest (keys of the model are shorter
\* than a block).
RECURSIVE key_block(_)
key_block(key) ==
    IF key # <<>> /\ key[Len(key)] = 0 THEN key_block(SubSeq(key, 1, Len(key) - 1)) ELSE key

hmac_digest(key, msg) == [key |-> key_block(key), msg |-> msg]

\* the digest size of hashlib.sha256, in bytes
DigestSize == 32

\* base64.urlsafe_b64encode of the digest: the data characters (given by the
\* digest) and the count of the = characters that pad them to a multiple of 4.
urlsafe_b64encode(digest) == [data |-> digest, pad |-> (3 - (DigestSize % 3)) % 3]

\* str.rstrip of the = character
rstrip_nothing(sig) == sig
rstrip(sig) == [sig EXCEPT !.pad = 0]

NoDigest == [key |-> <<>>, msg |-> <<>>]
NoSignature == [data |-> NoDigest, pad |-> 0]

\* One print call: its label and what it interpolates.
Line(label, kind, val) == [label |-> label, kind |-> kind, val |-> val]

\* The call as a whole: what it returns, or that it raised.
build_hmac_signature_python_client(sec, ts, m, p, b) ==
    LET d == urlsafe_b64decode(sec)
    IN  IF d.ok
        THEN [raised |-> FALSE,
              signature |-> urlsafe_b64encode(hmac_digest(d.bytes, encode(build_message(ts, m, p, b))))]
        ELSE [raised |-> TRUE, signature |-> NoSignature]

---------------------------------------------------------------------------
(* The inputs of test_hmac.py *)

Methods == {<<"G","E","T">>, <<"P","O","S","T">>}
Paths == {<<"/">>, <<"/","'">>}
BodyChars == {"'", "\"", "a"}
Bodies == {NoBody} \cup {StrBody(s) : s \in SeqsUpTo(BodyChars, MaxBodyLen)}

\* Q and _ are characters of the URL-safe alphabet, = is the padding and !
\* a character outside the alphabet.
SecretChars == {"Q", "_", "=", "!"}
Secrets == SeqsUpTo(SecretChars, MaxSecretLen)
PaddedSecret == <<"Q","Q","=","=">>
UnpaddedSecret == <<"Q","Q">>

\* The digest strings main may be given to compare with: the digest of the
\* reference request and another one, each with and without its padding.
RefMessage == <<"0","G","E","T","/">>
RefDigests == {hmac_digest(<<65>>, encode(RefMessage)), hmac_digest(<<67>>, encode(RefMessage))}
RefSignatures == UNION {{rstrip(urlsafe_b64encode(d)), urlsafe_b64encode(d)} : d \in RefDigests}

CmpIdle ==
    /\ PYTHON_ORDER = <<>> /\ RUST_ORDER = <<>>
    /\ cpc = "idle" /\ idx = 0
    /\ fieldResults = <<>>
    /\ extraKeys = {} /\ missingKeys = {} /\ sameKeys = FALSE

AuthStart ==
    /\ pc = "call"
    /\ message = <<>> /\ decoded_secret = <<>>
    /\ result_bytes = NoDigest /\ signature = NoSignature
    /\ matched = FALSE
    /\ stdout = <<>>

\* every request, under a secret with and without its padding
InitRequests ==
    /\ secret \in {PaddedSecret, UnpaddedSecret}
    /\ timestamp \in 0..MaxTimestamp
    /\ method \in Methods
    /\ request_path \in Paths
    /\ body \in Bodies
    /\ rust_signature = rstrip(urlsafe_b64encode(hmac_digest(<<65>>, encode(RefMessage))))

\* every secret, for the reference request
InitSecrets ==
    /\ secret \in Secrets
    /\ timestamp = 0
    /\ method = <<"G","E","T">>
    /\ request_path = <<"/">>
    /\ body = NoBody
    /\ rust_signature \in RefSignatures

InitAuth ==
    /\ InitRequests \/ InitSecrets
    /\ AuthStart
    /\ CmpIdle

---------------------------------------------------------------------------
(* build_hmac_signature_python_client, step by step, and main *)

BuildMessage ==
    /\ pc = "call"
    /\ message' = build_message(timestamp, method, request_path, body)
    /\ pc' = "decode"
    /\ UNCHANGED <<secret, timestamp, method, request_path, body, rust_signature,
                   decoded_secret, result_bytes, signature, matched, stdout>>
    /\ UNCHANGED cmpVars

DecodeSecret ==
    /\ pc = "decode"
    /\ LET d == urlsafe_b64decode(secret)
           banner == <<Line("=== Python Client HMAC ===", "none", <<>>),
                       Line("Secret (base64)", "text", secret)>>
       IN  IF d.ok
           THEN /\ decoded_secret' = d.bytes
                /\ stdout' = stdout \o banner \o
                      <<Line("Secret decoded", "text", str(Len(d.bytes))),
                        Line("Secret bytes (hex)", "text", hex(d.bytes))>>
                /\ pc' = "hmac"
           ELSE \* binascii.Error leaves the function; nothing catches it
                /\ decoded_secret' = decoded_secret
                /\ stdout' = stdout \o banner
                /\ pc' = "raised"
    /\ UNCHANGED <<secret, timestamp, method, request_path, body, rust_signature,
                   message, result_bytes, signature, matched>>
    /\ UNCHANGED cmpVars

ComputeHmac ==
    /\ pc = "hmac"
    /\ LET d == hmac_digest(decoded_secret, encode(message))
       IN  /\ result_bytes' = d
           /\ stdout' = stdout \o
                 <<Line("Message", "text", Prefix(message, MsgPreview)),
                   Line("Message bytes (hex)", "text", hex(encode(message))),
                   Line("HMAC result bytes (hex)", "digest", d)>>
    /\ pc' = "encode"
    /\ UNCHANGED <<secret, timestamp, method, request_path, body, rust_signature,
                   message, decoded_secret, signature, matched>>
    /\ UNCHANGED cmpVars

EncodeResult ==
    /\ pc = "encode"
    /\ signature' = urlsafe_b64encode(result_bytes)
    /\ stdout' = stdout \o
          <<Line("Final signature (base64)", "signature", urlsafe_b64encode(result_bytes)),
            Line("===========================", "none", <<>>)>>
    /\ pc' = "returned"
    /\ UNCHANGED <<secret, timestamp, method, request_path, body, rust_signature,
                   message, decoded_secret, result_bytes, matched>>
    /\ UNCHANGED cmpVars

\* main, after the call returned: the three lines it prints
signatures_match(sig, reference) == rstrip(sig) = reference

MainCompare ==
    /\ pc = "returned"
    /\ matched' = signatures_match(signature, rust_signature)
    /\ stdout' = stdout \o
          <<Line("Rust signature", "signature", rust_signature),
            Line("Python signature", "signature", signature),
            Line("Match", "bool", signatures_match(signature, rust_signature))>>
    /\ pc' = "done"
    /\ UNCHANGED <<secret, timestamp, method, request_path, body, rust_signature,
                   message, decoded_secret, result_bytes, signature>>
    /\ UNCHANGED cmpVars

NextAuth == BuildMessage \/ DecodeSecret \/ ComputeHmac \/ EncodeResult \/ MainCompare

SpecAuth == InitAuth /\ [][NextAuth]_vars

---------------------------------------------------------------------------
(* Properties of test_hmac.py *)

Returned == pc \in {"returned", "done"}
PastDecode == pc \notin {"call", "decode"}

RECURSIVE DecimalValue(_)
DecimalValue(ds) ==
    IF ds = <<>> THEN 0
    ELSE 10 * DecimalValue(SubSeq(ds, 1, Len(ds) - 1)) + (IndexOf(Digits, ds[Len(ds)], 1) - 1)

\* ds is the decimal numeral of n: digits only, no leading zero
IsDecimalOf(ds, n) ==
    /\ Len(ds) >= 1
    /\ \A i \in 1..Len(ds) : IndexOf(Digits, ds[i], 1) > 0
    /\ (Len(ds) > 1 => ds[1] # "0")
    /\ DecimalValue(ds) = n

BodyLen == IF body.present THEN Len(body.text) ELSE 0

\* C1: the message fed to the HMAC is the decimal numeral of the timestamp,
\* then the method, then the path, each unchanged, then (for a non-empty
\* body) the body with every single quote replaced by a double quote and
\* every other character unchanged; nothing else is in it.
C1_MessageLayout ==
    pc # "call" =>
        LET t == Len(message) - Len(method) - Len(request_path) - BodyLen
        IN  /\ t >= 1
            /\ IsDecimalOf(SubSeq(message, 1, t), timestamp)
            /\ \A i \in 1..Len(method) : message[t + i] = method[i]
            /\ \A i \in 1..Len(request_path) : message[t + Len(method) + i] = request_path[i]
            /\ \A i \in 1..BodyLen :
                  message[t + Len(method) + Len(request_path) + i] =
                      IF body.text[i] = "'" THEN "\"" ELSE body.text[i]

C1_Witness ==
    /\ pc = "decode"
    /\ timestamp = 10
    /\ request_path = <<"/", "'">>
    /\ body = StrBody(<<"'", "a">>)

\* the body a caller normalised beforehand
QuotesReplaced(s) == [i \in 1..Len(s) |-> IF s[i] = "'" THEN "\"" ELSE s[i]]

\* C2: the header returned for a body equals the header the function returns
\* for the same body with its single quotes already replaced by double quotes
\* (and the call raises for the one exactly when it raises for the other).
C2_QuoteReplacementOnce ==
    (PastDecode /\ body.present) =>
        LET pre == build_hmac_signature_python_client(
                       secret, timestamp, method, request_path, StrBody(QuotesReplaced(body.text)))
        IN  /\ (pc = "raised") = pre.raised
            /\ Returned => signature = pre.signature

C2_Witness ==
    /\ pc = "returned"
    /\ body = StrBody(<<"'", "a">>)
    /\ signature # NoSignature

InUrlSafeAlphabet(c) ==
    c \in {StdAlphabet[i] : i \in 1..62} \cup {"-", "_"}

\* a secret made of data characters only, whose padded form would carry padding
IsStripped(s) ==
    /\ \A i \in 1..Len(s) : InUrlSafeAlphabet(s[i])
    /\ Len(s) % 4 \in {2, 3}

Padding(s) == IF Len(s) % 4 = 2 THEN <<"=", "=">> ELSE <<"=">>

\* data characters followed by the one or two = that pad them to a multiple of 4
IsPadded(s) ==
    \E n \in 1..2 :
        /\ Len(s) >= 4 /\ Len(s) % 4 = 0
        /\ \A i \in 1..Len(s) : IF i > Len(s) - n THEN s[i] = "=" ELSE InUrlSafeAlphabet(s[i])

PadCount(s) == Cardinality({i \in 1..Len(s) : s[i] = "="})

\* C7 as claimed: a secret with its padding removed decodes to the bytes of
\* the padded secret, and the call returns the same header.
C7_ToleratesMissingPadding ==
    (IsStripped(secret) /\ PastDecode) =>
        /\ pc # "raised"
        /\ decoded_secret = urlsafe_b64decode(secret \o Padding(secret)).bytes
        /\ Returned =>
              signature = build_hmac_signature_python_client(
                              secret \o Padding(secret), timestamp, method, request_path, body).signature

\* C7 amended: a secret with its padding removed never decodes: the call
\* raises and returns no header; the padded secret decodes, to 3 bytes for
\* every 4 characters less one byte for every = character.
C7_MissingPaddingRaises ==
    /\ (IsStripped(secret) /\ PastDecode) =>
          /\ pc = "raised"
          /\ signature = NoSignature
          /\ urlsafe_b64decode(secret \o Padding(secret)).ok
    /\ (IsPadded(secret) /\ PastDecode) =>
          /\ pc # "raised"
          /\ Len(decoded_secret) = 3 * (Len(secret) \div 4) - PadCount(secret)

C7_Witness ==
    /\ secret = UnpaddedSecret
    /\ pc = "raised"

\* C8: a header is returned only for a secret that is well-formed URL-safe
\* base64: a secret with a character outside the alphabet ends in an error.
C8_FailsClosed ==
    Returned => \A i \in 1..Len(secret) : InUrlSafeAlphabet(secret[i]) \/ secret[i] = "="

C10_NoOutputNoSecret ==
    /\ pc # "done" => stdout = <<>>
    /\ \A i \in 1..Len(stdout) :
          ~ /\ stdout[i].kind = "text"
            /\ \/ stdout[i].val = secret
               \/ (pc \notin {"call", "decode", "raised"} /\ stdout[i].val = hex(decoded_secret))

---------------------------------------------------------------------------
(* compare_formats.py: the values and the two orders                        *)

\* A Python value: the name of its type and its text (an int by its decimal
\* numeral).  Two values are equal (==) when both agree.
PyInt(ds) == [type |-> "int", val |-> ds]
PyStr(s) == [type |-> "str", val |-> s]
None == [type |-> "NoneType", val |-> <<>>]

PySalt ==
    <<"1","2","9","7","7","8","8","3","8","0">>
RustSalt ==
    <<"4","2","5","0","1","1","8","5","5">>
Maker ==
    <<"0","x","e","F","a","7","C","d","2","E","9","B","F","a","3","8","F","0","4","A","f","9",
        "5","d","f","9","0","d","a","9","0","B","1","9","4","e","4","e","d","1","9","1">>
\* the same address as the request body of test_hmac.py writes it
MakerLower ==
    <<"0","x","e","f","a","7","c","d","2","e","9","b","f","a","3","8","f","0","4","a","f","9",
        "5","d","f","9","0","d","a","9","0","b","1","9","4","e","4","e","d","1","9","1">>
PySignature ==
    <<"0","x","f","1","7","d","2","c","d","b","1","7","1","4","6","b","a","a","c","b","f","4",
        "0","4","b","a","f","3","e","4","8","5","7","b","6","5","1","d","7","4","c","8","9","f",
        "e","c","7","4","a","7","9","f","d","9","8","7","c","a","5","9","e","0","4","4","2","5",
        "7","2","d","6","8","4","f","0","b","1","9","5","1","d","e","5","b","2","7","4","6","0",
        "8","2","b","6","7","6","5","a","d","e","0","5","a","3","1","6","8","6","0","6","f","6",
        "d","3","d","c","2","4","4","2","3","d","1","6","0","3","c","3","4","b","e","0","1",
        "b">>
RustSignature ==
    <<"0","x","9","4","5","6","c","9","d","3","c","3","a","0","6","b","2","2","7","e","b","0",
        "6","7","c","2","1","0","f","a","1","2","2","1","d","e","0","4","5","5","a","c","e","4",
        "3","b","c","d","5","b","3","4","0","4","e","3","b","2","4","c","b","b","1","d","6","2",
        "4","e","5","b","c","1","7","7","5","9","0","9","7","9","3","a","d","3","d","9","7","4",
        "9","b","1","f","1","f","7","1","e","e","b","f","9","5","9","e","6","e","9","2","4","1",
        "9","f","c","4","e","b","6","3","5","a","f","e","4","4","e","d","3","b","9","2","1",
        "b">>
\* a signature string that is too short
ShortSignature == <<"0","x","1","b">>

\* the keys of the model, in the order PYTHON_ORDER lists them
KeyOrder == <<"salt", "maker", "makerAmount", "signatureType", "signature">>
KeySet == {KeyOrder[i] : i \in 1..Len(KeyOrder)}

\* what the reference order may hold under each key
PythonValues(k) ==
    CASE k = "salt" -> {PyInt(PySalt)}
      [] k = "maker" -> {PyStr(Maker)}
      [] k = "makerAmount" -> {PyStr(<<"8","5","0","0","0">>)}
      [] k = "signatureType" -> {PyInt(<<"0">>)}
      [] k = "signature" -> {PyStr(PySignature)}

\* what the candidate order may hold under each key
RustValues(k) ==
    CASE k = "salt" -> {PyInt(RustSalt), PyInt(PySalt), PyStr(RustSalt)}
      [] k = "maker" -> {PyStr(Maker), PyStr(MakerLower)}
      [] k = "makerAmount" ->
            {PyStr(<<"8","5","0","0","0">>), PyStr(<<"0","8","5","0","0","0">>),
             PyStr(<<"1","0","0","0","0","0">>)}
      [] k = "signatureType" -> {PyInt(<<"0">>), PyStr(<<"0">>)}
      [] k = "signature" -> {PyStr(RustSignature), PyStr(PySignature), PyStr(ShortSignature)}

\* every dict over some of the first n keys, each key holding one of its values
RECURSIVE OrdersOver(_, _)
OrdersOver(values, n) ==
    IF n = 0 THEN {<<>>}
    ELSE LET rest == OrdersOver(values, n - 1)
             k == KeyOrder[n]
         IN  rest \cup {(k :> v) @@ o : o \in rest, v \in values[k]}

PythonOrders == OrdersOver([k \in KeySet |-> PythonValues(k)], Len(KeyOrder))
RustOrders == OrdersOver([k \in KeySet |-> RustValues(k)], Len(KeyOrder))

AuthIdle ==
    /\ secret = <<>> /\ timestamp = 0 /\ method = <<>> /\ request_path = <<>>
    /\ body = NoBody /\ rust_signature = NoSignature
    /\ pc = "idle"
    /\ message = <<>> /\ decoded_secret = <<>>
    /\ result_bytes = NoDigest /\ signature = NoSignature
    /\ matched = FALSE
    /\ stdout = <<>>

InitCompare ==
    /\ PYTHON_ORDER \in PythonOrders
    /\ RUST_ORDER \in RustOrders
    /\ cpc = "loop" /\ idx = 1
    /\ fieldResults = <<>>
    /\ extraKeys = {} /\ missingKeys = {} /\ sameKeys = FALSE
    /\ AuthIdle

---------------------------------------------------------------------------
(* compare_formats.py: the loop and the key check                           *)

\* the keys of a dict in the order the loop visits them
keys(order) == SelectSeq(KeyOrder, LAMBDA k : k \in DOMAIN order)

\* dict.get(key): None for a key the dict does not hold
get(order, key) == IF key \in DOMAIN order THEN order[key] ELSE None

\* type(v).__name__
type_name(v) == v.type

\* the fields whose values are expected to differ
Excluded == {"salt", "signature"}

\* match: value equality, or the key is salt or signature
field_match_numeric(key, py_val, rust_val) ==
    \/ py_val = rust_val
    \/ key \in Excluded
    \/ /\ py_val.type = "str" /\ rust_val.type = "str"
       /\ \A i \in 1..Len(py_val.val) : IndexOf(Digits, py_val.val[i], 1) > 0
       /\ \A i \in 1..Len(rust_val.val) : IndexOf(Digits, rust_val.val[i], 1) > 0
       /\ DecimalValue(py_val.val) = DecimalValue(rust_val.val)
field_match(key, py_val, rust_val) == py_val = rust_val \/ key \in Excluded

\* type_match: the two type names are the same
type_match_loose(py_type, rust_type) == TRUE
type_match(py_type, rust_type) == py_type = rust_type

\* the mark the iteration prints: the type mark for salt and signature, the
\* match mark for every other key
printed_mark_always_match(key, match, tmatch) == match
printed_mark(key, match, tmatch) == IF key \in Excluded THEN tmatch ELSE match

CompareField ==
    /\ cpc = "loop"
    /\ idx <= Len(keys(PYTHON_ORDER))
    /\ LET key == keys(PYTHON_ORDER)[idx]
           py_val == PYTHON_ORDER[key]
           rust_val == get(RUST_ORDER, key)
           py_type == type_name(py_val)
           rust_type == IF rust_val # None THEN type_name(rust_val) ELSE "MISSING"
           match == field_match(key, py_val, rust_val)
           tmatch == type_match(py_type, rust_type)
       IN  fieldResults' = Append(fieldResults,
               [key |-> key, py_type |-> py_type, rust_type |-> rust_type,
                match |-> match, mark |-> printed_mark(key, match, tmatch)])
    /\ idx' = idx + 1
    /\ UNCHANGED <<PYTHON_ORDER, RUST_ORDER, cpc, extraKeys, missingKeys, sameKeys>>
    /\ UNCHANGED authVars

\* the keys the script reports as extra and as missing
extra_keys_of_python(python_order, rust_order) == DOMAIN python_order \ DOMAIN rust_order
extra_keys(python_order, rust_order) == DOMAIN rust_order \ DOMAIN python_order
missing_keys(python_order, rust_order) == DOMAIN python_order \ DOMAIN rust_order

CheckKeys ==
    /\ cpc = "loop"
    /\ idx > Len(keys(PYTHON_ORDER))
    /\ extraKeys' = extra_keys(PYTHON_ORDER, RUST_ORDER)
    /\ missingKeys' = missing_keys(PYTHON_ORDER, RUST_ORDER)
    /\ sameKeys' = (DOMAIN RUST_ORDER = DOMAIN PYTHON_ORDER)
    /\ cpc' = "done"
    /\ UNCHANGED <<PYTHON_ORDER, RUST_ORDER, idx, fieldResults>>
    /\ UNCHANGED authVars

NextCompare == CompareField \/ CheckKeys

SpecCompare == InitCompare /\ [][NextCompare]_vars

\* The verdict of a finished run: no failure mark was printed, neither by an
\* iteration of the loop nor by the key check.
overallMatch ==
    /\ cpc = "done"
    /\ \A i \in 1..Len(fieldResults) : fieldResults[i].mark
    /\ extraKeys = {}
    /\ missingKeys = {}

---------------------------------------------------------------------------
(* Properties of compare_formats.py *)

Both == DOMAIN PYTHON_ORDER \cap DOMAIN RUST_ORDER
SameKeySets == DOMAIN PYTHON_ORDER = DOMAIN RUST_ORDER

\* every key both orders hold, salt and signature aside, has equal values
OtherFieldsEqual == \A k \in Both \ Excluded : PYTHON_ORDER[k] = RUST_ORDER[k]

\* salt and signature, where both orders hold them, have the same type
ExcludedTypesEqual == \A k \in Both \cap Excluded : PYTHON_ORDER[k].type = RUST_ORDER[k].type

ResultKeys == {fieldResults[i].key : i \in 1..Len(fieldResults)}

\* C4: every key of either order is accounted for: a key of both has a field
\* result, a key of the candidate only is listed as extra, a key of the
\* reference only is listed as missing; and whenever some key is in one
\* order only, the script neither reports the same keys nor a match.
C4_KeysAccounted ==
    cpc = "done" =>
        /\ \A k \in KeySet :
              /\ k \in Both => k \in ResultKeys
              /\ k \in extraKeys <=> (k \in DOMAIN RUST_ORDER /\ k \notin DOMAIN PYTHON_ORDER)
              /\ k \in missingKeys <=> (k \in DOMAIN PYTHON_ORDER /\ k \notin DOMAIN RUST_ORDER)
        /\ extraKeys \cup missingKeys \subseteq KeySet
        /\ ~SameKeySets => (~sameKeys /\ ~overallMatch)

C4_Witness ==
    /\ cpc = "done"
    /\ extraKeys # {}
    /\ missingKeys # {}
    /\ Both # {}

NumericKeys == {"makerAmount"}
AddressKeys == {"maker"}

IsNumeral(s) == Len(s) >= 1 /\ \A i \in 1..Len(s) : IndexOf(Digits, s[i], 1) > 0

IsHexChar(c) == c \in {HexDigits[i] : i \in 1..16} \cup {"A", "B", "C", "D", "E", "F"}

lower(s) ==
    [i \in 1..Len(s) |->
        CASE s[i] = "A" -> "a" [] s[i] = "B" -> "b" [] s[i] = "C" -> "c"
          [] s[i] = "D" -> "d" [] s[i] = "E" -> "e" [] s[i] = "F" -> "f"
          [] OTHER -> s[i]]

\* the characters of a 20-byte address after the 0x
AddressHexChars == 40
IsAddress(s) ==
    /\ Len(s) = 2 + AddressHexChars
    /\ s[1] = "0" /\ s[2] = "x"
    /\ \A i \in 3..Len(s) : IsHexChar(s[i])

\* the two values denote the same thing: the same number, the same address
SameDenotation(k, a, b) ==
    /\ a.type = "str" /\ b.type = "str"
    /\ IF k \in NumericKeys
       THEN IsNumeral(a.val) /\ IsNumeral(b.val) /\ DecimalValue(a.val) = DecimalValue(b.val)
       ELSE IsAddress(a.val) /\ IsAddress(b.val) /\ lower(a.val) = lower(b.val)

SignatureHexChars == 130
IsSignature(s) ==
    /\ Len(s) = 2 + SignatureHexChars
    /\ s[1] = "0" /\ s[2] = "x"
    /\ \A i \in 3..Len(s) : IsHexChar(s[i])

\* the type check the claim describes: an integer salt, a signature string of
\* the expected length in hex
ExpectedType(k, v) ==
    IF k = "salt" THEN v.type = "int" ELSE v.type = "str" /\ IsSignature(v.val)

====
